---- MODULE Spec2Model ----
(***************************************************************************)
(* Help Hub Order API: four variants of one POST /order-lookup proxy.      *)
(*   "gqlA"  src/index.js                 GraphQL, cors package            *)
(*   "gqlB"  src/unnamed/part_000:220-434 GraphQL, cors package            *)
(*   "axios" src/unnamed/part_001         REST, hand-written CORS, Axios   *)
(*   "fetch" src/unnamed/part_000:1-219   REST, hand-written CORS, fetch   *)
(* Strings whose characters matter (postcodes, origins, ALLOWED_ORIGIN)    *)
(* are sequences of characters or tokens; names, titles, skus and urls are *)
(* short tuples that are only compared for equality.                       *)
(***************************************************************************)
EXTENDS Integers, Sequences, FiniteSets, TLC

VARIABLES
    variant,        \* which of the four programs is running
    SHOP,           \* process.env.SHOP is set (truthy)
    ADMIN_TOKEN,    \* process.env.ADMIN_TOKEN is set (truthy)
    ALLOWED_ORIGIN, \* process.env.ALLOWED_ORIGIN || "" as a token sequence
    step,           \* position of the request in the middleware chain
    req,            \* the inbound request
    acao,           \* Access-Control-Allow-Origin response header
    handlerEntered, \* the /order-lookup handler body has started
    upstreamCalls,  \* Admin API calls issued for this request
    reply,          \* kind of the upstream answer to the order search
    orders,         \* candidate list the handler extracted from the answer
    targetPc,       \* normalised request postcode
    order,          \* position in orders of the selected candidate, 0 if none
    tracking,       \* REST: tracking entries built from the fulfillments
    productIds,     \* REST: product ids still to fetch
    productsById,   \* REST: products loaded so far
    fetched,        \* REST: product fetches issued so far, with their outcome
    responses,      \* number of responses sent for this request
    res,            \* the response
    in1, in2,       \* inputs of the pure-function specification
    out             \* results of the pure-function specification

vars == <<variant, SHOP, ADMIN_TOKEN, ALLOWED_ORIGIN, step, req, acao,
          handlerEntered, upstreamCalls, reply, orders, targetPc, order,
          tracking, productIds, productsById, fetched, responses, res, in1,
          in2, out>>

config == <<variant, SHOP, ADMIN_TOKEN, ALLOWED_ORIGIN>>
pure == <<in1, in2, out>>

(* ------------------------------ bounds --------------------------------- *)
MaxOrders == 2
MaxLen == 3
MaxNumbers == 2
MaxFulfillments == 2
MaxItems == 3

(* --------------------------- JavaScript values ------------------------- *)
Undefined == <<"undefined">>      \* a missing string-valued field
NonString == <<"[object]">>       \* a truthy JSON value that is not a string
Null == <<"null">>                \* null / undefined for the other fields

Variants == {"gqlA", "gqlB", "axios", "fetch"}
IsGraphQL(v) == v \in {"gqlA", "gqlB"}
IsRest(v) == v \in {"axios", "fetch"}

Truthy(s) == s # Undefined /\ s # <<>>
OrEmpty(s) == IF Truthy(s) THEN s ELSE <<>>

IsSpace(c) == c \in {" ", "\t"}

RECURSIVE TrimStart(_)
TrimStart(s) ==
    IF s # <<>> /\ IsSpace(Head(s)) THEN TrimStart(Tail(s)) ELSE s

RECURSIVE TrimEnd(_)
TrimEnd(s) ==
    IF s # <<>> /\ IsSpace(s[Len(s)]) THEN TrimEnd(SubSeq(s, 1, Len(s) - 1)) ELSE s

Trim(s) == TrimEnd(TrimStart(s))

ToUpperChar(c) ==
    CASE c = "a" -> "A"
      [] c = "b" -> "B"
      [] OTHER -> c

toUpperCase(s) == [i \in 1..Len(s) |-> ToUpperChar(s[i])]

RECURSIVE RemoveWhitespace(_)
RemoveWhitespace(s) ==
    IF s = <<>> THEN <<>>
    ELSE IF IsSpace(Head(s)) THEN RemoveWhitespace(Tail(s))
    ELSE <<Head(s)>> \o RemoveWhitespace(Tail(s))

NoUpperCase(s) == Trim(RemoveWhitespace(OrEmpty(s)))

normalisePostcode(s) == Trim(RemoveWhitespace(toUpperCase(OrEmpty(s))))

Range(s) == {s[i] : i \in 1..Len(s)}

(* ------------------------------ origin gate ---------------------------- *)
StripSlash(s) ==
    IF s # <<>> /\ s[Len(s)] = "/" THEN SubSeq(s, 1, Len(s) - 1) ELSE s

RECURSIVE SplitComma(_)
SplitComma(s) ==
    IF \A i \in 1..Len(s) : s[i] # ","
    THEN <<s>>
    ELSE LET k == CHOOSE i \in 1..Len(s) :
                      s[i] = "," /\ \A j \in 1..(i - 1) : s[j] # ","
         IN <<SubSeq(s, 1, k - 1)>> \o SplitComma(SubSeq(s, k + 1, Len(s)))

allowedOrigins(env) ==
    IF env # <<>>
    THEN {StripSlash(Trim(e)) : e \in Range(SplitComma(env))}
    ELSE {}

FALLBACK_ORIGINS(v) ==
    IF v = "axios"
    THEN {<<"https://www.ledspace.co.uk">>, <<"https://ledspace.co.uk">>,
          <<"https://ledspace-lighting.myshopify.com">>,
          <<"http://localhost:3000">>, <<"http://127.0.0.1:3000">>}
    ELSE {<<"https://www.ledspace.co.uk">>, <<"https://ledspace.co.uk">>,
          <<"https://ledspace-lighting.myshopify.com">>}

ALLOWED_ORIGINS(v, env) ==
    IF env # <<>>
    THEN {Trim(e) : e \in Range(SplitComma(env))} \ {<<>>}
    ELSE FALLBACK_ORIGINS(v)

\* the cors package's origin callback: TRUE = cb(null, true), FALSE = cb(err)
originCallback(env, origin) ==
    IF env = <<>> THEN TRUE
    ELSE IF ~Truthy(origin) THEN TRUE
    ELSE StripSlash(origin) \in allowedOrigins(env)

\* the hand-written middleware echoes the origin on an exact match only
EchoesOrigin(v, env, origin) ==
    Truthy(origin) /\ origin \in ALLOWED_ORIGINS(v, env)

(* --------------------------- upstream data ----------------------------- *)
\* Raw zips stored on an order; Undefined = no address or no zip.
ZipValues == {Undefined, <<"a", " ", "1">>, <<"B", "2">>}

Shapes == {"bare", "loose", "full"}

Tag(kind, i) == <<kind, ToString(i)>>

Fulfillment(company, legacyCompany, numbers, number, urls, url) ==
    [tracking_company |-> company, shipping_company |-> legacyCompany,
     tracking_numbers |-> numbers, tracking_number |-> number,
     tracking_urls |-> urls, tracking_url |-> url]

\* One line item in both wire formats: REST reads title, sku, product_id;
\* GraphQL reads title, variant.sku and variant.product.{handle,title,image}.
LineItem(title, sku, pid, ptitle, image) ==
    [title |-> title, sku |-> sku, product_id |-> pid, handle |-> pid,
     ptitle |-> ptitle, image |-> image]

FulfillmentsOf(shape, i) ==
    CASE shape = "bare" -> <<>>
      [] shape = "loose" ->
            <<Fulfillment(Null, Tag("carrier", i), <<>>, Null, <<>>, Tag("u2", i))>>
      [] shape = "full" ->
            <<Fulfillment(Tag("carrier", i), Null,
                          <<Tag("A", i), Tag("B", i)>>, Null, <<Tag("u1", i)>>, Null),
              Fulfillment(Null, Null, <<>>, Null, <<>>, Null)>>

LineItemsOf(shape, i) ==
    CASE shape = "bare" -> <<>>
      [] shape = "loose" ->
            <<LineItem(Tag("custom", i), Tag("sku0", i), Null, Null, Null)>>
      [] shape = "full" ->
            <<LineItem(Tag("line1", i), Tag("sku1", i), <<"P1">>, <<"Product 1">>, <<"img1">>),
              LineItem(Tag("line2", i), Tag("sku1", i), <<"P1">>, <<"Product 1">>, <<"img1">>),
              LineItem(Tag("line3", i), Null, <<"P2">>, Null, Null)>>

Order(i, ship, bill, shape) ==
    [id |-> i, name |-> Tag("LS", i), ship |-> ship, bill |-> bill,
     fulfillments |-> FulfillmentsOf(shape, i),
     line_items |-> LineItemsOf(shape, i)]

OrderLists ==
    UNION {
        { [i \in 1..n |-> Order(i, z[i][1], z[i][2], shape)] :
            z \in [1..n -> ZipValues \X ZipValues] }
        : n \in 0..MaxOrders, shape \in Shapes }

\* Answers of the Admin API to the order search.
ReplyKinds == {"ok", "nodata", "errors", "null", "garbage", "http", "throw"}
\* Answers to one product fetch; "fail" is a non-2xx status or a transport
\* error, which both make shopifyAdminGet / shopifyAdminFetch throw.
ProductReplies == {"ok", "noproduct", "fail"}

Product(pid) ==
    [id |-> pid, title |-> <<"Product", pid[1]>>, handle |-> <<"handle", pid[1]>>,
     images |-> IF pid = <<"P1">> THEN <<<<"src", pid[1]>>>> ELSE <<>>]

(* ------------------------------ resolver ------------------------------- *)
\* orders.find predicate of the GraphQL variants
MatchesGql(o, pc) ==
    LET ship == normalisePostcode(o.ship)
        bill == normalisePostcode(o.bill)
    IN ship = pc \/ bill = pc

\* loop body test of the REST variants
MatchesRest(o, pc) ==
    LET shipPc == IF o.ship # Undefined THEN normalisePostcode(o.ship) ELSE <<>>
        billPc == IF o.bill # Undefined THEN normalisePostcode(o.bill) ELSE <<>>
    IN (shipPc # <<>> /\ shipPc = pc) \/ (billPc # <<>> /\ billPc = pc)

Matches(v, o, pc) == IF IsGraphQL(v) THEN MatchesGql(o, pc) ELSE MatchesRest(o, pc)

LastMatch(v, os, pc) ==
    IF \E i \in 1..Len(os) : Matches(v, os[i], pc)
    THEN CHOOSE i \in 1..Len(os) :
            Matches(v, os[i], pc) /\ \A j \in (i + 1)..Len(os) : ~Matches(v, os[j], pc)
    ELSE 0

FirstMatch(v, os, pc) ==
    IF \E i \in 1..Len(os) : Matches(v, os[i], pc)
    THEN CHOOSE i \in 1..Len(os) :
            Matches(v, os[i], pc) /\ \A j \in 1..(i - 1) : ~Matches(v, os[j], pc)
    ELSE 0

FallbackToFirst(v, os, pc) ==
    IF FirstMatch(v, os, pc) # 0 THEN FirstMatch(v, os, pc)
    ELSE IF os # <<>> THEN 1 ELSE 0

FallbackToLast(v, os, pc) ==
    IF FirstMatch(v, os, pc) # 0 THEN FirstMatch(v, os, pc) ELSE Len(os)

\* GraphQL: orders.find(...), 0 = undefined
findMatch(v, os, pc) == FirstMatch(v, os, pc)

\* REST: the for loop with break, then "if (!order) order = orders[0]"
pickOrder(v, os, pc) ==
    IF FirstMatch(v, os, pc) # 0 THEN FirstMatch(v, os, pc) ELSE 1

(* ------------------------------ composer ------------------------------- *)
\* url at the same position only, without the fallback to the first url
NoUrlFallback(f) ==
    LET numbers == IF f.tracking_numbers # <<>> THEN f.tracking_numbers
                   ELSE IF f.tracking_number # Null THEN <<f.tracking_number>>
                   ELSE <<>>
        urls == IF f.tracking_urls # <<>> THEN f.tracking_urls
                ELSE IF f.tracking_url # Null THEN <<f.tracking_url>>
                ELSE <<>>
    IN IF numbers # <<>>
       THEN [idx \in 1..Len(numbers) |->
                [number |-> numbers[idx],
                 url |-> IF idx <= Len(urls) THEN urls[idx] ELSE Null,
                 company |-> f.tracking_company]]
       ELSE IF urls # <<>>
       THEN <<[number |-> Null, url |-> urls[1], company |-> f.tracking_company]>>
       ELSE <<>>

TrackingOfFulfillment(f) ==
    LET company == IF f.tracking_company # Null THEN f.tracking_company
                   ELSE f.shipping_company
        numbers == IF f.tracking_numbers # <<>> THEN f.tracking_numbers
                   ELSE IF f.tracking_number # Null THEN <<f.tracking_number>>
                   ELSE <<>>
        urls == IF f.tracking_urls # <<>> THEN f.tracking_urls
                ELSE IF f.tracking_url # Null THEN <<f.tracking_url>>
                ELSE <<>>
    IN IF numbers # <<>>
       THEN [idx \in 1..Len(numbers) |->
                [number |-> numbers[idx],
                 url |-> IF idx <= Len(urls) THEN urls[idx]
                         ELSE IF urls # <<>> THEN urls[1] ELSE Null,
                 company |-> company]]
       ELSE IF urls # <<>>
       THEN <<[number |-> Null, url |-> urls[1], company |-> company]>>
       ELSE <<>>

RECURSIVE buildTracking(_)
buildTracking(fs) ==
    IF fs = <<>> THEN <<>>
    ELSE TrackingOfFulfillment(Head(fs)) \o buildTracking(Tail(fs))

RECURSIVE distinctProductIds(_, _)
distinctProductIds(lis, seen) ==
    IF lis = <<>> THEN seen
    ELSE LET pid == Head(lis).product_id
         IN distinctProductIds(Tail(lis),
                IF pid # Null /\ pid \notin Range(seen) THEN Append(seen, pid) ELSE seen)

\* REST items: lineItems.map(...)
itemsRest(lis, loaded) ==
    [k \in 1..Len(lis) |->
        LET li == lis[k]
            has == li.product_id # Null /\ \E p \in loaded : p.id = li.product_id
            p == IF has THEN CHOOSE x \in loaded : x.id = li.product_id ELSE Product(<<"none">>)
        IN [title |-> IF has THEN p.title ELSE li.title,
            handle |-> IF has THEN p.handle ELSE Null,
            image |-> IF has /\ p.images # <<>> THEN p.images[1] ELSE Null,
            skus |-> IF li.sku # Null THEN <<li.sku>> ELSE <<>>]]

\* the byHandle loop without the skus.includes test
RECURSIVE byHandleNoDedupe(_, _)
byHandleNoDedupe(lis, acc) ==
    IF lis = <<>> THEN acc
    ELSE LET li == Head(lis)
             known == \E k \in 1..Len(acc) : acc[k].handle = li.handle
             acc1 == IF known THEN acc
                     ELSE Append(acc,
                            [title |-> IF li.ptitle # Null THEN li.ptitle
                                       ELSE IF li.title # Null THEN li.title
                                       ELSE li.handle,
                             handle |-> li.handle,
                             image |-> IF li.image # Null THEN li.image ELSE <<"">>,
                             skus |-> <<>>])
             acc2 == [k \in 1..Len(acc1) |->
                        IF acc1[k].handle = li.handle /\ li.sku # Null
                        THEN [acc1[k] EXCEPT !.skus = Append(@, li.sku)]
                        ELSE acc1[k]]
         IN IF li.handle = Null THEN byHandleNoDedupe(Tail(lis), acc)
            ELSE byHandleNoDedupe(Tail(lis), acc2)

\* GraphQL items: the byHandle Map, in insertion order
RECURSIVE byHandle(_, _)
byHandle(lis, acc) ==
    IF lis = <<>> THEN acc
    ELSE LET li == Head(lis)
             known == \E k \in 1..Len(acc) : acc[k].handle = li.handle
             acc1 == IF known THEN acc
                     ELSE Append(acc,
                            [title |-> IF li.ptitle # Null THEN li.ptitle
                                       ELSE IF li.title # Null THEN li.title
                                       ELSE li.handle,
                             handle |-> li.handle,
                             image |-> IF li.image # Null THEN li.image ELSE <<"">>,
                             skus |-> <<>>])
             acc2 == [k \in 1..Len(acc1) |->
                        IF acc1[k].handle = li.handle /\ li.sku # Null
                           /\ li.sku \notin Range(acc1[k].skus)
                        THEN [acc1[k] EXCEPT !.skus = Append(@, li.sku)]
                        ELSE acc1[k]]
         IN IF li.handle = Null THEN byHandle(Tail(lis), acc)
            ELSE byHandle(Tail(lis), acc2)

(* ------------------------------ responses ------------------------------ *)
MsgMissing == "Missing orderCode or postcode"
MsgNotConfigured == "Server not configured (SHOP / ADMIN_TOKEN missing)"
MsgServerError == "Server error"
MsgNotFoundForPostcode == "Order not found for that postcode."
MsgNotFound == "Order not found"
MsgNoProducts == "No products found on that order."

NoRes ==
    [status |-> 0, body |-> "none", ok |-> FALSE, error |-> "",
     order |-> Null, tracking |-> <<>>, items |-> <<>>]

Plain(status, body) == [NoRes EXCEPT !.status = status, !.body = body]

JsonError(status, msg) ==
    [NoRes EXCEPT !.status = status, !.body = "json", !.ok = FALSE, !.error = msg]

JsonOk(name, tr, items) ==
    [NoRes EXCEPT !.status = 200, !.body = "json", !.ok = TRUE,
                  !.order = name, !.tracking = tr, !.items = items]

\* what the catch block of each variant puts in the error field
caughtMessage(v, message) ==
    IF v = "gqlA" THEN message ELSE MsgServerError

(* ------------------------------ requests ------------------------------- *)
Methods == {"POST", "OPTIONS"}
Origins ==
    {Undefined, <<"https://www.ledspace.co.uk">>,
     <<"https://www.ledspace.co.uk", "/">>, <<"https://evil.example">>}
OrderCodes == {Undefined, <<" ">>, <<"L", "1">>, NonString}
Postcodes == {Undefined, <<" ">>, <<"A", "1">>}
EnvValues ==
    {<<>>,
     <<"https://www.ledspace.co.uk", "/", ",", " ", "https://ledspace.co.uk">>}

\* The gate reads only method and origin, the handler only the body: requests
\* vary the origin under a well-formed body, and the body without an Origin.
Requests ==
    {[method |-> m, origin |-> o, orderCode |-> <<"L", "1">>, postcode |-> <<"A", "1">>] :
        m \in Methods, o \in Origins}
    \cup
    {[method |-> "POST", origin |-> o, orderCode |-> c, postcode |-> p] :
        o \in {Undefined}, c \in OrderCodes, p \in Postcodes}

NoReq ==
    [method |-> "POST", origin |-> Undefined, orderCode |-> Undefined,
     postcode |-> Undefined]

(* ------------------------------ validation ----------------------------- *)

\* GraphQL: code = (orderCode || "").trim(), pc = normalisePostcode(postcode || "")
bodyOkGraphQL(r) ==
    Trim(OrEmpty(r.orderCode)) # <<>> /\ normalisePostcode(OrEmpty(r.postcode)) # <<>>

\* REST: !orderCode || !postcode
bodyOkRest(r) == Truthy(r.orderCode) /\ Truthy(r.postcode)

configured == SHOP /\ ADMIN_TOKEN

(* ------------------------------- actions ------------------------------- *)
Fresh ==
    /\ acao = Undefined
    /\ handlerEntered = FALSE
    /\ upstreamCalls = 0
    /\ reply = "none"
    /\ orders = <<>>
    /\ targetPc = <<>>
    /\ order = 0
    /\ tracking = <<>>
    /\ productIds = <<>>
    /\ productsById = {}
    /\ fetched = <<>>
    /\ responses = 0
    /\ res = NoRes

Init ==
    /\ variant \in Variants
    /\ SHOP \in BOOLEAN
    /\ ADMIN_TOKEN \in BOOLEAN
    /\ ALLOWED_ORIGIN \in EnvValues
    /\ step = "idle"
    /\ req = NoReq
    /\ Fresh
    /\ in1 = <<>> /\ in2 = <<>> /\ out = <<>>

\* a request arrives
Receive ==
    /\ step = "idle"
    /\ req' \in Requests
    /\ step' = "cors"
    /\ UNCHANGED <<config, fetched, pure, acao, handlerEntered, upstreamCalls, reply, orders,
                   targetPc, order, tracking, productIds, productsById, responses, res>>

\* the request is over; nothing of it survives (no state is shared by requests)
Finish ==
    /\ step = "done"
    /\ step' = "idle"
    /\ req' = NoReq
    /\ acao' = Undefined
    /\ handlerEntered' = FALSE
    /\ upstreamCalls' = 0
    /\ reply' = "none"
    /\ orders' = <<>>
    /\ targetPc' = <<>>
    /\ order' = 0
    /\ tracking' = <<>>
    /\ productIds' = <<>>
    /\ productsById' = {}
    /\ fetched' = <<>>
    /\ responses' = 0
    /\ res' = NoRes
    /\ UNCHANGED <<config, pure>>

SendWithoutReturn(r) ==
    /\ res' = r
    /\ responses' = responses + 2
    /\ step' = "done"

\* return res.status(...).json(...)
Send(r) ==
    /\ res' = r
    /\ responses' = responses + 1
    /\ step' = "done"

\* app.use(cors({origin: function (origin, cb) {...}})) of the GraphQL variants
CorsPackage ==
    /\ step = "cors"
    /\ IsGraphQL(variant)
    /\ IF ~originCallback(ALLOWED_ORIGIN, req.origin)
       THEN \* next(err): Express's default error handler answers
            /\ Send(Plain(500, "html"))
            /\ UNCHANGED acao
       ELSE /\ acao' = req.origin
            /\ IF req.method = "OPTIONS"
               THEN Send(Plain(204, "empty"))
               ELSE /\ step' = "handler"
                    /\ UNCHANGED <<res, responses>>
    /\ UNCHANGED <<config, fetched, pure, req, handlerEntered, upstreamCalls, reply, orders,
                   targetPc, order, tracking, productIds, productsById>>

\* app.use((req, res, next) => {...}) of the REST variants
CorsMiddleware ==
    /\ step = "cors"
    /\ IsRest(variant)
    /\ acao' = IF EchoesOrigin(variant, ALLOWED_ORIGIN, req.origin)
               THEN req.origin ELSE Undefined
    /\ IF req.method = "OPTIONS"
       THEN Send(Plain(200, "empty"))
       ELSE /\ step' = "handler"
            /\ UNCHANGED <<res, responses>>
    /\ UNCHANGED <<config, fetched, pure, req, handlerEntered, upstreamCalls, reply, orders,
                   targetPc, order, tracking, productIds, productsById>>

\* the handler of the GraphQL variants up to "await shopifyAdminFetch"
LookupGraphQL ==
    /\ step = "handler"
    /\ IsGraphQL(variant)
    /\ handlerEntered' = TRUE
    /\ IF req.orderCode = NonString
       THEN \* (orderCode || "").trim is not a function
            /\ Send(JsonError(500, caughtMessage(variant, "TypeError")))
            /\ UNCHANGED <<upstreamCalls, targetPc>>
       ELSE IF ~bodyOkGraphQL(req)
       THEN /\ Send(JsonError(400, MsgMissing))
            /\ UNCHANGED <<upstreamCalls, targetPc>>
       ELSE IF ~configured
       THEN /\ Send(JsonError(500, MsgNotConfigured))
            /\ UNCHANGED <<upstreamCalls, targetPc>>
       ELSE /\ targetPc' = normalisePostcode(OrEmpty(req.postcode))
            /\ upstreamCalls' = upstreamCalls + 1
            /\ step' = "orders"
            /\ UNCHANGED <<res, responses>>
    /\ UNCHANGED <<config, fetched, pure, req, acao, reply, orders, order, tracking,
                   productIds, productsById>>

\* the handler of the REST variants up to the first awaited Admin call
LookupRest ==
    /\ step = "handler"
    /\ IsRest(variant)
    /\ handlerEntered' = TRUE
    /\ IF ~bodyOkRest(req)
       THEN /\ Send(JsonError(400, MsgMissing))
            /\ UNCHANGED <<upstreamCalls, targetPc>>
       ELSE /\ targetPc' = normalisePostcode(req.postcode)
            /\ IF ~configured
               THEN \* shopifyAdminGet / shopifyAdminFetch throws before any call
                    /\ Send(JsonError(500, caughtMessage(variant, "SHOP or ADMIN_TOKEN not configured")))
                    /\ UNCHANGED upstreamCalls
               ELSE /\ upstreamCalls' = upstreamCalls + 1
                    /\ step' = "orders"
                    /\ UNCHANGED <<res, responses>>
    /\ UNCHANGED <<config, fetched, pure, req, acao, reply, orders, order, tracking,
                   productIds, productsById>>

(* --------------------------- upstream client --------------------------- *)
\* Does the awaited order search throw into the handler's catch block?
\*   GraphQL shopifyAdminFetch: !res.ok, res.json() rejecting, json.errors
\*     (read on a null body: TypeError), or the transport itself.
\*   REST: the transport, a non-2xx status, or list.orders read on null.
searchThrows(v, kind) ==
    IF IsGraphQL(v)
    THEN kind \in {"throw", "http", "garbage", "null", "errors"}
    ELSE kind \in {"throw", "http", "null"}

thrownMessage(kind) ==
    CASE kind = "http" -> "Shopify HTTP <status>: <text>"
      [] kind = "errors" -> "<message of the first GraphQL error>"
      [] kind = "throw" -> "<transport error message>"
      [] kind = "garbage" -> "<JSON parse error message>"
      [] kind = "null" -> "<TypeError message>"
      [] OTHER -> "<error message>"

\* data?.orders?.edges?.map(e => e.node) || []   /   Array.isArray(list.orders) ? list.orders : []
candidates(kind, os) == IF kind = "ok" THEN os ELSE <<>>

Replies ==
    {<<"ok", os>> : os \in OrderLists} \cup {<<k, <<>>>> : k \in ReplyKinds \ {"ok"}}

\* GraphQL: the rest of the handler after the awaited order search
OrdersReplyGraphQL ==
    /\ step = "orders"
    /\ IsGraphQL(variant)
    /\ \E r \in Replies :
        LET kind == r[1]
            os == candidates(kind, r[2])
            match == findMatch(variant, os, targetPc)
            items == IF match = 0 THEN <<>> ELSE byHandle(os[match].line_items, <<>>)
        IN /\ reply' = kind
           /\ IF searchThrows(variant, kind)
              THEN /\ Send(JsonError(500, caughtMessage(variant, thrownMessage(kind))))
                   /\ UNCHANGED <<orders, order>>
              ELSE /\ orders' = os
                   /\ order' = match
                   /\ IF match = 0
                      THEN Send(JsonError(404, MsgNotFoundForPostcode))
                      ELSE IF items = <<>>
                      THEN Send(JsonError(404, MsgNoProducts))
                      ELSE Send(JsonOk(os[match].name, <<>>, items))
    /\ UNCHANGED <<config, fetched, pure, req, acao, handlerEntered, upstreamCalls, targetPc,
                   tracking, productIds, productsById>>

\* REST: the handler from the awaited order search to the first product fetch
OrdersReplyRest ==
    /\ step = "orders"
    /\ IsRest(variant)
    /\ \E r \in Replies :
        LET kind == r[1]
            os == candidates(kind, r[2])
            sel == pickOrder(variant, os, targetPc)
            tr == buildTracking(os[sel].fulfillments)
            pids == distinctProductIds(os[sel].line_items, <<>>)
        IN /\ reply' = kind
           /\ IF searchThrows(variant, kind)
              THEN /\ Send(JsonError(500, caughtMessage(variant, thrownMessage(kind))))
                   /\ UNCHANGED <<orders, order, tracking, productIds>>
              ELSE IF os = <<>>
              THEN /\ orders' = os
                   /\ Send(JsonError(404, MsgNotFound))
                   /\ UNCHANGED <<order, tracking, productIds>>
              ELSE /\ orders' = os
                   /\ order' = sel
                   /\ tracking' = tr
                   /\ productIds' = pids
                   /\ IF pids = <<>>
                      THEN Send(JsonOk(os[sel].name, tr, itemsRest(os[sel].line_items, {})))
                      ELSE /\ step' = "products"
                           /\ UNCHANGED <<res, responses>>
    /\ UNCHANGED <<config, fetched, pure, req, acao, handlerEntered, upstreamCalls, targetPc,
                   productsById>>

\* the product loop without its try/catch: a failed fetch reaches the
\* handler's catch block
ProductReplyUncaught ==
    /\ step = "products"
    /\ productIds # <<>>
    /\ \E r \in ProductReplies :
        LET pid == Head(productIds)
            loaded == IF r = "ok" THEN productsById \cup {Product(pid)} ELSE productsById
        IN /\ upstreamCalls' = upstreamCalls + 1
           /\ fetched' = Append(fetched, [id |-> pid, result |-> r])
           /\ productsById' = loaded
           /\ productIds' = Tail(productIds)
           /\ IF r = "fail"
              THEN Send(JsonError(500, MsgServerError))
              ELSE IF Tail(productIds) = <<>>
              THEN Send(JsonOk(orders[order].name, tracking,
                               itemsRest(orders[order].line_items, loaded)))
              ELSE UNCHANGED <<res, responses, step>>
    /\ UNCHANGED <<config, pure, req, acao, handlerEntered, reply, orders, targetPc,
                   order, tracking>>

\* REST: one turn of "for (const pid of productIds)": the fetch is issued and
\* answered (a failure is caught and logged); after the last turn
\* the items map and the reply
ProductReply ==
    /\ step = "products"
    /\ productIds # <<>>
    /\ \E r \in ProductReplies :
        LET pid == Head(productIds)
            loaded == IF r = "ok" THEN productsById \cup {Product(pid)} ELSE productsById
        IN /\ upstreamCalls' = upstreamCalls + 1
           /\ fetched' = Append(fetched, [id |-> pid, result |-> r])
           /\ productsById' = loaded
           /\ productIds' = Tail(productIds)
           /\ IF Tail(productIds) = <<>>
              THEN Send(JsonOk(orders[order].name, tracking,
                               itemsRest(orders[order].line_items, loaded)))
              ELSE UNCHANGED <<res, responses, step>>
    /\ UNCHANGED <<config, pure, req, acao, handlerEntered, reply, orders, targetPc,
                   order, tracking>>

Next ==
    \/ Receive
    \/ CorsPackage
    \/ CorsMiddleware
    \/ LookupGraphQL
    \/ LookupRest
    \/ OrdersReplyGraphQL
    \/ OrdersReplyRest
    \/ ProductReply
    \/ Finish

Spec == Init /\ [][Next]_vars

(* ---------------- postcode normalisation as a pure function ------------ *)
Alphabet == {"a", "A", "1", " "}

Strings == UNION {[1..n -> Alphabet] : n \in 0..MaxLen}

InitNorm ==
    /\ variant = "gqlA"
    /\ SHOP = TRUE
    /\ ADMIN_TOKEN = TRUE
    /\ ALLOWED_ORIGIN = <<>>
    /\ step = "idle"
    /\ req = NoReq
    /\ Fresh
    /\ in1 \in Strings
    /\ in2 \in Strings \cup {Undefined}
    /\ out = <<>>

\* in1 is a request postcode, in2 the zip of an order: normalise both and run
\* the resolver's tests on a candidate holding in2 as shipping or billing zip
Normalise ==
    /\ out = <<>>
    /\ out' = [once |-> normalisePostcode(in1),
               twice |-> normalisePostcode(normalisePostcode(in1)),
               zip |-> normalisePostcode(in2),
               shipGql |-> MatchesGql(Order(1, in2, Undefined, "bare"), normalisePostcode(in1)),
               billGql |-> MatchesGql(Order(1, Undefined, in2, "bare"), normalisePostcode(in1)),
               shipRest |-> MatchesRest(Order(1, in2, Undefined, "bare"), normalisePostcode(in1)),
               billRest |-> MatchesRest(Order(1, Undefined, in2, "bare"), normalisePostcode(in1))]
    /\ UNCHANGED <<config, fetched, step, req, acao, handlerEntered, upstreamCalls, reply,
                   orders, targetPc, order, tracking, productIds, productsById,
                   responses, res, in1, in2>>

NextNorm == Normalise

SpecNorm == InitNorm /\ [][NextNorm]_vars

(* ------------------- tracking composition as a pure function ----------- *)
Numbered(kind, n) == [k \in 1..n |-> Tag(kind, k)]

FulfillmentInputs ==
    {Fulfillment(<<"carrier">>, Null, Numbered("number", n), number,
                 Numbered("url", m), url) :
        n \in 0..MaxNumbers, m \in 0..MaxNumbers,
        number \in {Null, <<"legacy number">>}, url \in {Null, <<"legacy url">>}}

FulfillmentLists ==
    UNION {[1..n -> FulfillmentInputs] : n \in 0..MaxFulfillments}

InitTrack ==
    /\ variant = "axios"
    /\ SHOP = TRUE
    /\ ADMIN_TOKEN = TRUE
    /\ ALLOWED_ORIGIN = <<>>
    /\ step = "idle"
    /\ req = NoReq
    /\ Fresh
    /\ in1 \in FulfillmentLists
    /\ in2 = <<>>
    /\ out = <<>>

\* in1 is order.fulfillments of the selected order
BuildTracking ==
    /\ out = <<>>
    /\ out' = [tracking |-> buildTracking(in1)]
    /\ UNCHANGED <<config, fetched, step, req, acao, handlerEntered, upstreamCalls, reply,
                   orders, targetPc, order, tracking, productIds, productsById,
                   responses, res, in1, in2>>

NextTrack == BuildTracking

SpecTrack == InitTrack /\ [][NextTrack]_vars

(* --------------------- item grouping as a pure function ---------------- *)
LineItemInputs ==
    {LineItem(<<"line title">>, sku, handle,
              IF handle = <<"h1">> THEN <<"Product 1">> ELSE Null, Null) :
        sku \in {Null, <<"s1">>, <<"s2">>}, handle \in {Null, <<"h1">>, <<"h2">>}}

LineItemLists == UNION {[1..n -> LineItemInputs] : n \in 0..MaxItems}

InitItems ==
    /\ variant = "gqlA"
    /\ SHOP = TRUE
    /\ ADMIN_TOKEN = TRUE
    /\ ALLOWED_ORIGIN = <<>>
    /\ step = "idle"
    /\ req = NoReq
    /\ Fresh
    /\ in1 \in LineItemLists
    /\ in2 = <<>>
    /\ out = <<>>

\* in1 is match.lineItems.edges of the matched order
GroupByHandle ==
    /\ out = <<>>
    /\ out' = [items |-> byHandle(in1, <<>>)]
    /\ UNCHANGED <<config, fetched, step, req, acao, handlerEntered, upstreamCalls, reply,
                   orders, targetPc, order, tracking, productIds, productsById,
                   responses, res, in1, in2>>

NextItems == GroupByHandle

SpecItems == InitItems /\ [][NextItems]_vars

(* ====================== properties of the claims ======================= *)
\* Vocabulary of the claims, stated without the program's own helpers.
Blank(s) == s = Undefined \/ \A i \in 1..Len(s) : s[i] \in {" ", "\t"}

IsString(s) == s # Undefined /\ s # NonString

Lower(c) == IF c = "A" THEN "a" ELSE IF c = "B" THEN "b" ELSE c

\* p and q differ only in letter case and in white space
RECURSIVE SameLetters(_, _)
SameLetters(p, q) ==
    IF p # <<>> /\ p[1] \in {" ", "\t"} THEN SameLetters(Tail(p), q)
    ELSE IF q # <<>> /\ q[1] \in {" ", "\t"} THEN SameLetters(p, Tail(q))
    ELSE IF p = <<>> \/ q = <<>> THEN p = q
    ELSE Lower(p[1]) = Lower(q[1]) /\ SameLetters(Tail(p), Tail(q))

Text(s) == IF s = Undefined THEN <<>> ELSE s

\* the normalised zip equals the normalised postcode
NormEq(zip, postcode) == SameLetters(Text(zip), Text(postcode))

\* ... and the order has that postcode at all
PostcodeMatch(zip, postcode) == ~Blank(zip) /\ NormEq(zip, postcode)

OrderMatches(o, postcode) ==
    PostcodeMatch(o.ship, postcode) \/ PostcodeMatch(o.bill, postcode)

HandlerDone == step = "done" /\ handlerEntered

\* the order search was answered with a candidate list (possibly empty)
ListReturned == reply \in ReplyKinds /\ ~searchThrows(variant, reply)

\* C1: a request whose orderCode or postcode is missing or blank is answered
\* 400 {ok:false,error} and no upstream call is issued during it.
C1_BlankBodyIs400WithoutUpstream ==
    (handlerEntered /\ (Blank(req.orderCode) \/ Blank(req.postcode))) =>
        /\ upstreamCalls = 0
        /\ step = "done" =>
              res.status = 400 /\ res.body = "json" /\ ~res.ok /\ res.error # ""

\* C2: an Origin outside a non-empty allow-list gets no
\* Access-Control-Allow-Origin header and never enters the lookup logic.
AllowList ==
    IF IsRest(variant) THEN ALLOWED_ORIGINS(variant, ALLOWED_ORIGIN)
    ELSE allowedOrigins(ALLOWED_ORIGIN)

OutsideAllowList ==
    /\ step # "idle"
    /\ AllowList # {}
    /\ req.origin # Undefined
    /\ \A e \in AllowList : StripSlash(e) # StripSlash(req.origin)

C2_DisallowedOriginNeverEntersHandler ==
    OutsideAllowList => (acao = Undefined /\ ~handlerEntered)

\* C3: strict variants: with no candidate whose normalised shipping or billing
\* postcode equals the normalised request postcode the answer is 404
\* order-not-found, and every 200 discloses a candidate that matches.
C3_StrictNoMatchIs404 ==
    (IsGraphQL(variant) /\ HandlerDone /\ ListReturned) =>
        /\ (\A i \in 1..Len(orders) : ~OrderMatches(orders[i], req.postcode)) =>
              (res.status = 404 /\ res.error = MsgNotFoundForPostcode)
        /\ res.status = 200 =>
              \E i \in 1..Len(orders) :
                  /\ orders[i].name = res.order
                  /\ OrderMatches(orders[i], req.postcode)

C3_Witness ==
    /\ IsGraphQL(variant) /\ HandlerDone /\ reply = "ok"
    /\ Len(orders) = 2
    /\ orders[1].ship # Undefined
    /\ \A i \in 1..Len(orders) : ~OrderMatches(orders[i], req.postcode)
    /\ res.status = 404

\* C4: every success response carries a non-empty items list; zero composed
\* items give a 404 instead.
C4_SuccessHasItems ==
    (HandlerDone /\ res.ok) => res.items # <<>>

\* C5: a request that reaches the handler ends with exactly one response, a
\* JSON body with a boolean ok, status 200, 400, 404 or 500, ok iff 200.
HandlerStep ==
    LookupGraphQL \/ LookupRest \/ OrdersReplyGraphQL \/ OrdersReplyRest \/ ProductReply

C5_ExactlyOneJsonResponse ==
    /\ responses <= 1
    /\ (handlerEntered /\ step # "done") =>
          (responses = 0 /\ step \in {"orders", "products"})
    /\ step \in {"handler", "orders", "products"} => ENABLED HandlerStep
    /\ HandlerDone =>
          /\ responses = 1
          /\ res.body = "json"
          /\ res.ok \in BOOLEAN
          /\ res.status \in {200, 400, 404, 500}
          /\ res.ok <=> res.status = 200

C5_Witness ==
    /\ HandlerDone /\ reply = "throw" /\ res.status = 500 /\ responses = 1

\* C6: valid body, shop or token not configured: 500 with a message distinct
\* from the upstream-failure message, and no upstream call.
UpstreamFailureMessages ==
    {caughtMessage(variant, thrownMessage(k)) : k \in ReplyKinds}

C6_NotConfiguredHasOwnMessage ==
    (HandlerDone /\ ~configured
        /\ IsString(req.orderCode) /\ ~Blank(req.orderCode)
        /\ IsString(req.postcode) /\ ~Blank(req.postcode)) =>
        /\ res.status = 500
        /\ res.error \notin UpstreamFailureMessages
        /\ upstreamCalls = 0

\* C7: the gate allows every origin when ALLOWED_ORIGIN is empty, allows an
\* absent Origin, and allows a present Origin iff it equals an allow-list
\* entry after stripping one trailing slash.
PolicyAllows(env, origin) ==
    \/ env = <<>>
    \/ origin = Undefined
    \/ \E e \in Range(SplitComma(env)) : StripSlash(Trim(e)) = StripSlash(origin)

GateRejected == step = "done" /\ ~handlerEntered /\ req.method = "POST"

C7_GateDecisionIsPolicy ==
    (step \in {"handler", "orders", "products", "done"}) =>
        IF PolicyAllows(ALLOWED_ORIGIN, req.origin)
        THEN ~GateRejected /\ acao = req.origin
        ELSE acao = Undefined /\ (req.method = "POST" => GateRejected)

\* C8 as stated: the first candidate whose normalised shipping or billing
\* postcode equals the normalised target is selected; in particular the only
\* candidate whose shipping postcode matches is selected wherever it stands.
C8_OnlyShippingMatchIsSelected ==
    (handlerEntered /\ step \in {"products", "done"} /\ reply = "ok") =>
        \A i \in 1..Len(orders) :
            /\ (/\ OrderMatches(orders[i], req.postcode)
                /\ \A j \in 1..(i - 1) : ~OrderMatches(orders[j], req.postcode))
               => order = i
            /\ (/\ PostcodeMatch(orders[i].ship, req.postcode)
                /\ \A j \in 1..Len(orders) :
                      j # i => ~PostcodeMatch(orders[j].ship, req.postcode))
               => order = i

\* C8 amended: the first candidate with a shipping or billing match is
\* selected; in particular the only candidate with a shipping or billing
\* match is selected wherever it stands (an order without postcode never
\* matches).
C8_FirstMatchIsSelected ==
    (handlerEntered /\ step \in {"products", "done"} /\ reply = "ok") =>
        \A i \in 1..Len(orders) :
            /\ (/\ OrderMatches(orders[i], req.postcode)
                /\ \A j \in 1..(i - 1) : ~OrderMatches(orders[j], req.postcode))
               => order = i
            /\ (/\ OrderMatches(orders[i], req.postcode)
                /\ \A j \in 1..Len(orders) :
                      j # i => ~OrderMatches(orders[j], req.postcode))
               => order = i

C8_Witness ==
    /\ HandlerDone /\ reply = "ok" /\ Len(orders) = 2
    /\ ~OrderMatches(orders[1], req.postcode)
    /\ orders[1].ship # Undefined
    /\ PostcodeMatch(orders[2].ship, req.postcode)
    /\ order = 2
    /\ res.status = 200 /\ res.order = orders[2].name

\* C9: lenient variants: 404 iff the candidate list is empty; a non-empty
\* list without any match is answered with the first candidate's tracking and
\* items.
ItemOfLine(item, li) ==
    /\ item.skus = (IF li.sku = Null THEN <<>> ELSE <<li.sku>>)
    /\ \/ item.title = li.title /\ item.handle = Null /\ item.image = Null
       \/ li.product_id # Null /\ item.title = Product(li.product_id).title
            /\ item.handle = Product(li.product_id).handle

C9_LenientFallsBackToFirst ==
    (IsRest(variant) /\ HandlerDone) =>
        /\ res.status = 404 <=> (ListReturned /\ orders = <<>>)
        /\ (/\ ListReturned /\ orders # <<>>
            /\ \A i \in 1..Len(orders) : ~OrderMatches(orders[i], req.postcode)) =>
              /\ res.status = 200
              /\ order = 1
              /\ res.order = orders[1].name
              /\ res.tracking = buildTracking(orders[1].fulfillments)
              /\ Len(res.items) = Len(orders[1].line_items)
              /\ \A k \in 1..Len(res.items) :
                    ItemOfLine(res.items[k], orders[1].line_items[k])

C9_Witness ==
    /\ IsRest(variant) /\ HandlerDone /\ reply = "ok"
    /\ Len(orders) = 2
    /\ orders[2].ship # Undefined
    /\ \A i \in 1..Len(orders) : ~OrderMatches(orders[i], req.postcode)
    /\ res.status = 200 /\ res.order = orders[1].name
    /\ res.tracking # <<>> /\ res.items # <<>>

\* C10: normalisation is idempotent, blind to letter case and white space,
\* and the resolver's equality tests compare the normalised request postcode
\* with the normalised order postcode.
C10_NormaliseIdempotentInsensitive ==
    out # <<>> =>
        /\ out.twice = out.once
        /\ \A i \in 1..Len(out.once) : out.once[i] \notin {" ", "\t", "a", "b"}
        /\ SameLetters(in1, Text(in2)) <=> out.once = out.zip
        /\ ~Blank(in1) =>
              /\ out.shipGql <=> NormEq(in2, in1)
              /\ out.billGql <=> NormEq(in2, in1)
              /\ out.shipRest <=> NormEq(in2, in1)
              /\ out.billRest <=> NormEq(in2, in1)

C10_Witness ==
    /\ out # <<>>
    /\ in1 = <<"a", " ", "1">> /\ in2 = <<"A", "1", " ">>
    /\ out.once = <<"A", "1">> /\ out.shipGql /\ out.billRest

\* C11: the tracking list is the concatenation over the fulfillments, in
\* order, of one entry per tracking number (the explicit list, else the single
\* legacy number), each with the url at the same position of the url list,
\* else the first url, else null; one entry {null, first url} when there is a
\* url and no number; nothing when there is neither.
NumbersOf(f) ==
    IF Len(f.tracking_numbers) > 0 THEN f.tracking_numbers
    ELSE IF f.tracking_number = Null THEN <<>> ELSE <<f.tracking_number>>

UrlsOf(f) ==
    IF Len(f.tracking_urls) > 0 THEN f.tracking_urls
    ELSE IF f.tracking_url = Null THEN <<>> ELSE <<f.tracking_url>>

EntriesOf(f) ==
    IF Len(NumbersOf(f)) > 0 THEN Len(NumbersOf(f))
    ELSE IF Len(UrlsOf(f)) > 0 THEN 1 ELSE 0

RECURSIVE EntriesBefore(_, _)
EntriesBefore(fs, i) ==
    IF i <= 1 THEN 0 ELSE EntriesBefore(fs, i - 1) + EntriesOf(fs[i - 1])

C11_TrackingPerFulfillment ==
    out # <<>> =>
        /\ Len(out.tracking) = EntriesBefore(in1, Len(in1) + 1)
        /\ \A i \in 1..Len(in1) :
              LET f == in1[i]
                  at == EntriesBefore(in1, i)
              IN /\ \A k \in 1..Len(NumbersOf(f)) :
                        /\ out.tracking[at + k].number = NumbersOf(f)[k]
                        /\ out.tracking[at + k].url =
                              (IF k <= Len(UrlsOf(f)) THEN UrlsOf(f)[k]
                               ELSE IF Len(UrlsOf(f)) > 0 THEN UrlsOf(f)[1]
                               ELSE Null)
                 /\ (Len(NumbersOf(f)) = 0 /\ Len(UrlsOf(f)) > 0) =>
                        /\ out.tracking[at + 1].number = Null
                        /\ out.tracking[at + 1].url = UrlsOf(f)[1]
        /\ in1 = <<Fulfillment(<<"carrier">>, Null, Numbered("number", 2), Null,
                               Numbered("url", 1), Null)>> =>
              out.tracking =
                 <<[number |-> Tag("number", 1), url |-> Tag("url", 1), company |-> <<"carrier">>],
                   [number |-> Tag("number", 2), url |-> Tag("url", 1), company |-> <<"carrier">>]>>
        /\ in1 = <<Fulfillment(<<"carrier">>, Null, <<>>, Null, <<>>, <<"legacy url">>)>> =>
              out.tracking =
                 <<[number |-> Null, url |-> <<"legacy url">>, company |-> <<"carrier">>]>>

C11_Witness ==
    /\ out # <<>>
    /\ Len(in1) = 2
    /\ in1[1].tracking_numbers = <<>> /\ in1[1].tracking_number = Null
    /\ in1[1].tracking_urls = <<>> /\ in1[1].tracking_url = <<"legacy url">>
    /\ Len(in1[2].tracking_numbers) = 2 /\ Len(in1[2].tracking_urls) = 1
    /\ Len(out.tracking) = 3
    /\ out.tracking[1].number = Null
    /\ out.tracking[3].url = Tag("url", 1)

\* C12: the items list holds exactly one view per distinct product handle, in
\* first-seen order; line items without handle contribute nothing; a view's
\* skus are the distinct non-empty SKUs of the line items of its handle, in
\* first-seen order.
FirstLine(lis, h) ==
    CHOOSE k \in 1..Len(lis) :
        lis[k].handle = h /\ \A j \in 1..(k - 1) : lis[j].handle # h

FirstLineWithSku(lis, h, sku) ==
    CHOOSE k \in 1..Len(lis) :
        /\ lis[k].handle = h /\ lis[k].sku = sku
        /\ \A j \in 1..(k - 1) : ~(lis[j].handle = h /\ lis[j].sku = sku)

C12_OneViewPerHandle ==
    out # <<>> =>
        LET views == out.items
        IN /\ \A k \in 1..Len(views) :
                /\ views[k].handle # Null
                /\ \E j \in 1..Len(in1) : in1[j].handle = views[k].handle
           /\ \A j \in 1..Len(in1) :
                in1[j].handle # Null =>
                    Cardinality({k \in 1..Len(views) : views[k].handle = in1[j].handle}) = 1
           /\ \A k, l \in 1..Len(views) :
                k < l => FirstLine(in1, views[k].handle) < FirstLine(in1, views[l].handle)
           /\ \A k \in 1..Len(views) :
                LET h == views[k].handle
                    skus == views[k].skus
                IN /\ Range(skus) =
                        {in1[j].sku : j \in {i \in 1..Len(in1) : in1[i].handle = h}} \ {Null}
                   /\ \A a, b \in 1..Len(skus) :
                        a < b => /\ skus[a] # skus[b]
                                 /\ FirstLineWithSku(in1, h, skus[a])
                                      < FirstLineWithSku(in1, h, skus[b])

C12_Witness ==
    /\ out # <<>>
    /\ Len(in1) = 3
    /\ in1[1].handle = <<"h2">> /\ in1[1].sku = <<"s2">>
    /\ in1[2].handle = Null /\ in1[2].sku = <<"s1">>
    /\ in1[3].handle = <<"h2">> /\ in1[3].sku = <<"s2">>
    /\ Len(out.items) = 1
    /\ out.items[1].skus = <<(<<"s2">>)>>

\* C13: failed product fetches do not change the status, the remaining
\* fetches are still attempted, a line item whose product failed to load
\* keeps its own title with null handle and image, and a line item whose
\* product loaded gets the product's title, handle and first image.
RECURSIVE FirstSeen(_)
FirstSeen(ids) ==
    IF ids = <<>> THEN <<>>
    ELSE LET front == FirstSeen(SubSeq(ids, 1, Len(ids) - 1))
             last == ids[Len(ids)]
         IN IF last = Null \/ last \in Range(front) THEN front ELSE Append(front, last)

ProductIdsOf(o) == FirstSeen([k \in 1..Len(o.line_items) |-> o.line_items[k].product_id])

ResultFor(pid) ==
    IF \E k \in 1..Len(fetched) : fetched[k].id = pid
    THEN fetched[CHOOSE k \in 1..Len(fetched) : fetched[k].id = pid].result
    ELSE "none"

C13_ProductFailuresAreNotFatal ==
    (IsRest(variant) /\ HandlerDone /\ order # 0) =>
        LET o == orders[order]
        IN /\ res.status = 200 /\ res.ok
           /\ [k \in 1..Len(fetched) |-> fetched[k].id] = ProductIdsOf(o)
           /\ upstreamCalls = 1 + Len(ProductIdsOf(o))
           /\ Len(res.items) = Len(o.line_items)
           /\ \A k \in 1..Len(o.line_items) :
                LET li == o.line_items[k]
                    item == res.items[k]
                IN /\ ResultFor(li.product_id) = "fail" =>
                        (item.title = li.title /\ item.handle = Null /\ item.image = Null)
                   /\ ResultFor(li.product_id) = "ok" =>
                        /\ item.title = Product(li.product_id).title
                        /\ item.handle = Product(li.product_id).handle
                        /\ item.image = (IF Product(li.product_id).images = <<>> THEN Null
                                         ELSE Product(li.product_id).images[1])

C13_Witness ==
    /\ IsRest(variant) /\ HandlerDone /\ order # 0
    /\ Len(fetched) = 2
    /\ fetched[1].result = "fail" /\ fetched[2].result = "ok"
    /\ res.status = 200
    /\ res.items[1].handle = Null /\ res.items[Len(res.items)].handle # Null

\* C14: no upstream call is retried: one order search per valid request; in
\* the REST variants at most one product fetch per distinct product id of the
\* selected order, one after another and only after the order search
\* succeeded; a failed order search (non-success status or reported error
\* list) is answered 500 with no further upstream call.
WellFormedBody ==
    /\ IsString(req.orderCode) /\ ~Blank(req.orderCode)
    /\ IsString(req.postcode) /\ ~Blank(req.postcode)

SearchCalls == upstreamCalls - Len(fetched)

C14_NoRetryAndFailedSearchIs500 ==
    /\ SearchCalls \in {0, 1}
    /\ (HandlerDone /\ handlerEntered /\ WellFormedBody /\ configured) => SearchCalls = 1
    /\ IsGraphQL(variant) => fetched = <<>>
    /\ fetched # <<>> =>
          /\ reply = "ok" /\ order # 0
          /\ \A k, l \in 1..Len(fetched) : k # l => fetched[k].id # fetched[l].id
          /\ \A k \in 1..Len(fetched) :
                \E j \in 1..Len(orders[order].line_items) :
                    orders[order].line_items[j].product_id = fetched[k].id
    /\ (HandlerDone /\ reply \in {"http", "errors"}) =>
          (res.status = 500 /\ upstreamCalls = 1)

====
